---- MODULE Spec2Model ----
(***************************************************************************)
(* Model of app.py, the Flask backend of the grain control application:    *)
(* one SQLite table, movimentacoes, and four request handlers              *)
(* (get_movimentacoes, add_movimentacao, update_movimentacao,              *)
(* delete_movimentacao).  Every handler runs one SQL statement, so a       *)
(* handler is one atomic action; Return models the response leaving the    *)
(* server, after which the next request arrives.                           *)
(***************************************************************************)
EXTENDS Integers, Sequences, FiniteSets, TLC

VARIABLES
    store,      \* the rows of table movimentacoes
    seq,        \* sqlite_sequence.seq of the table: the largest rowid ever inserted
    assigned,   \* history: every id an INSERT has been committed with
    req,        \* the request being answered, NoReq between requests
    env,        \* what the handler read from its environment: clock and storage fault
    resp,       \* the response the handler returned
    conn        \* the connection the handler acquired: "none", "open" or "closed"

vars == <<store, seq, assigned, req, env, resp, conn>>

(***************************************************************************)
(* Bounds and input domains                                                *)
(***************************************************************************)
\* AUTOINCREMENT ids are unbounded; the model stops inserting at MaxId.
MaxId == 2

\* Text is a sequence of character codes; SQLite compares TEXT bytewise.
Empty == <<>>
Entrada == <<5>>
Soja == <<7>>
Silo == <<9>>
\* Two dates where the first is a proper prefix of the second ("1" < "10").
Date1 == <<1>>
Date2 == <<1, 0>>
Dates == {Date1, Date2}

\* datetime.now() read by a handler; two writes may read the same instant.
Times == {1, 2}

\* Storage faults the environment may raise in a handler that reaches the store.
Faults == {"none", "execute", "commit"}

(***************************************************************************)
(* JSON / Python values                                                    *)
(***************************************************************************)
\* An integer is Base(mag) + k, with mag one of 0, 53, 63 standing for
\* 0, 2^53 and 2^63: the magnitudes where REAL and INTEGER storage change.
PyNone == [t |-> "none"]
PyStr(s) == [t |-> "str", s |-> s]
PyBool(b) == [t |-> "bool", b |-> b]
PyInt(mag, k) == [t |-> "int", mag |-> mag, k |-> k]
PyNaN == [t |-> "float", nan |-> TRUE]
PyFloat(mag, k) == [t |-> "float", nan |-> FALSE, mag |-> mag, k |-> k]
PyList(n) == [t |-> "list", len |-> n]
PyDict(d) == [t |-> "dict", d |-> d]

\* Python truth value of a value (bool(v)).
Truthy(v) ==
    CASE v.t = "none" -> FALSE
      [] v.t = "str" -> v.s # Empty
      [] v.t = "bool" -> v.b
      [] v.t = "int" -> ~(v.mag = 0 /\ v.k = 0)
      [] v.t = "float" -> v.nan \/ ~(v.mag = 0 /\ v.k = 0)
      [] v.t = "list" -> v.len > 0
      [] v.t = "dict" -> DOMAIN v.d # {}

\* dict.get(key): the value, None when the key is absent.
Get(d, key) == IF key \in DOMAIN d THEN d[key] ELSE PyNone

\* isinstance(v, (int, float)): bool is a subclass of int.
IsIntOrFloat(v) == v.t \in {"int", "float", "bool"}

\* LeqZero written with < in place of <=: a quantity of zero passes.
LeqZero_Strict(v) ==
    CASE v.t = "bool" -> FALSE
      [] v.t = "int" -> v.mag = 0 /\ v.k < 0
      [] v.t = "float" -> ~v.nan /\ v.mag = 0 /\ v.k < 0

\* v <= 0 for a value that passed IsIntOrFloat; every comparison with NaN is False.
LeqZero(v) ==
    CASE v.t = "bool" -> ~v.b
      [] v.t = "int" -> v.mag = 0 /\ v.k <= 0
      [] v.t = "float" -> ~v.nan /\ v.mag = 0 /\ v.k <= 0

(***************************************************************************)
(* SQLite values, parameter binding and column affinity                    *)
(***************************************************************************)
SqlNull == [t |-> "null"]
SqlText(s) == [t |-> "text", s |-> s]
SqlInteger(mag, k) == [t |-> "integer", mag |-> mag, k |-> k]
SqlReal(mag, k) == [t |-> "real", mag |-> mag, k |-> k]
BindError(exception) == [t |-> "error", raises |-> exception]

\* sqlite3 binding of a Python parameter: None -> NULL, str -> TEXT, int and bool
\* -> 64-bit INTEGER (OverflowError from 2^63 on), float -> REAL with NaN stored
\* as NULL; a list or dict cannot be bound.
Bind(v) ==
    CASE v.t = "none" -> SqlNull
      [] v.t = "str" -> SqlText(v.s)
      [] v.t = "bool" -> SqlInteger(0, IF v.b THEN 1 ELSE 0)
      [] v.t = "int" -> IF v.mag = 63 THEN BindError("OverflowError")
                        ELSE SqlInteger(v.mag, v.k)
      [] v.t = "float" -> IF v.nan THEN SqlNull ELSE SqlReal(v.mag, v.k)
      [] OTHER -> BindError("InterfaceError")

\* The IEEE double nearest to 2^53 + k (k >= 0): doubles there are 2 apart and a
\* tie goes to the even mantissa.
RoundOffset(k) ==
    CASE k % 2 = 0 -> k
      [] k % 4 = 1 -> k - 1
      [] k % 4 = 3 -> k + 1

\* Column "quantidade REAL": an INTEGER is forced into floating point.
RealAffinity(sv) ==
    IF sv.t = "integer"
    THEN SqlReal(sv.mag, IF sv.mag = 0 THEN sv.k ELSE RoundOffset(sv.k))
    ELSE sv

\* datetime.now().isoformat(): a string whose text order is the order of the instants.
Isoformat(now) == [t |-> "text", iso |-> now]

\* The columns of CREATE TABLE movimentacoes declared NOT NULL.
NotNullColumns == {"tipo", "data", "produto", "quantidade", "timestamp"}

\* The row an INSERT or UPDATE writes from its bound parameters.
MakeRow(id, tipo, data, produto, quantidade, destino, timestamp) ==
    [id |-> id, tipo |-> tipo, data |-> data, produto |-> produto,
     quantidade |-> RealAffinity(quantidade), destino |-> destino,
     timestamp |-> timestamp]

ViolatesNotNull(row) == \E c \in NotNullColumns : row[c] = SqlNull

Ids(table) == {r.id : r \in table}

Max(S) == CHOOSE m \in S : \A x \in S : x <= m

\* NextRowid of a plain INTEGER PRIMARY KEY, without AUTOINCREMENT: one more
\* than the largest rowid now in the table.
NextRowid_NoAutoincrement(table, sequence) == Max(Ids(table) \cup {0}) + 1

\* INTEGER PRIMARY KEY AUTOINCREMENT: one more than the largest rowid the table
\* has ever held, which sqlite_sequence remembers across deletes.
NextRowid(table, sequence) == Max(Ids(table) \cup {sequence}) + 1

\* Bytewise (memcmp) comparison of two TEXT values: a <= b.
RECURSIVE LexLeq(_, _)
LexLeq(a, b) ==
    IF a = <<>> THEN TRUE
    ELSE IF b = <<>> THEN FALSE
    ELSE IF Head(a) < Head(b) THEN TRUE
    ELSE IF Head(a) > Head(b) THEN FALSE
    ELSE LexLeq(Tail(a), Tail(b))

(***************************************************************************)
(* Responses                                                               *)
(***************************************************************************)
NoReq == [op |-> "none"]
NoEnv == [now |-> 0, fault |-> "none"]
NoResp == [status |-> 0]
Response(status, text) == [status |-> status, text |-> text]

DadosInvalidos == "Dados invalidos"
CamposFaltando == "Campos obrigatorios faltando"
QuantidadeInvalida == "Quantidade deve ser um numero positivo"
NaoEncontrada == "Movimentacao nao encontrada"
Adicionada == "Movimentacao adicionada com sucesso!"
Atualizada == "Movimentacao atualizada com sucesso!"
Excluida == "Movimentacao excluida com sucesso!"

\* What a handler leaves behind: the table, sqlite_sequence, its response and
\* the state of the connection it acquired.
Outcome(table, sequence, response, connection) ==
    [store |-> table, seq |-> sequence, resp |-> response, conn |-> connection]

(***************************************************************************)
(* Validation shared by add_movimentacao and update_movimentacao           *)
(***************************************************************************)
Malformed == [t |-> "malformed"]

\* The response the handler returns before it reaches the store, NoResp when the
\* body passes.  request.get_json() aborts with 400 on a body that is not JSON;
\* a truthy body that is not a dict has no .get and the handler dies with 500.
RequestRejection(body) ==
    IF body = Malformed THEN Response(400, "Bad Request")
    ELSE IF ~Truthy(body) THEN Response(400, DadosInvalidos)
    ELSE IF body.t # "dict" THEN Response(500, "Internal Server Error")
    ELSE LET tipo == Get(body.d, "tipo")
             data_movimentacao == Get(body.d, "data")
             produto == Get(body.d, "produto")
             quantidade == Get(body.d, "quantidade")
         IN  IF ~(Truthy(tipo) /\ Truthy(data_movimentacao) /\ Truthy(produto)
                  /\ quantidade # PyNone)
             THEN Response(400, CamposFaltando)
             ELSE IF ~IsIntOrFloat(quantidade) \/ LeqZero(quantidade)
             THEN Response(400, QuantidadeInvalida)
             ELSE NoResp

\* The parameters of the INSERT and UPDATE statements, bound.
BoundParams(d) ==
    [tipo |-> Bind(Get(d, "tipo")), data |-> Bind(Get(d, "data")),
     produto |-> Bind(Get(d, "produto")), quantidade |-> Bind(Get(d, "quantidade")),
     destino |-> Bind(Get(d, "destino"))]

\* conn.execute of a statement: the exception it raises, "" when it raises none.
ExecuteError(params, fault, writes) ==
    IF \E c \in DOMAIN params : params[c].t = "error"
    THEN (CHOOSE v \in {params[c] : c \in DOMAIN params} : v.t = "error").raises
    ELSE IF fault = "execute" THEN "OperationalError"
    ELSE IF \E r \in writes : ViolatesNotNull(r) THEN "IntegrityError"
    ELSE ""

(***************************************************************************)
(* The handlers, as functions of the table and the request                 *)
(***************************************************************************)
add_movimentacao(table, sequence, body, now, fault) ==
    LET rejection == RequestRejection(body) IN
    IF rejection # NoResp THEN Outcome(table, sequence, rejection, "none")
    ELSE
        LET p == BoundParams(body.d)
            id == NextRowid(table, sequence)
            row == MakeRow(id, p.tipo, p.data, p.produto, p.quantidade, p.destino,
                           Isoformat(now))
            e == ExecuteError(p, fault, {row})
        IN  IF e # "" THEN Outcome(table, sequence, Response(500, e), "open")
            ELSE IF fault = "commit"
            THEN Outcome(table, sequence, Response(500, "OperationalError"), "open")
            ELSE Outcome(table \cup {row}, id, Response(201, Adicionada), "closed")

\* update_movimentacao with the quantity check moved behind the UPDATE: the row
\* is written and the 400 is returned afterwards.
update_movimentacao_CheckAfterWrite(table, sequence, movimentacao_id, body, now, fault) ==
    LET rejection == RequestRejection(body) IN
    IF rejection # NoResp /\ rejection # Response(400, QuantidadeInvalida)
    THEN Outcome(table, sequence, rejection, "none")
    ELSE
        LET p == BoundParams(body.d)
            matched == {r \in table : r.id = movimentacao_id}
            written == {MakeRow(r.id, p.tipo, p.data, p.produto, p.quantidade,
                                p.destino, Isoformat(now)) : r \in matched}
            e == ExecuteError(p, fault, written)
        IN  IF e # "" \/ fault = "commit"
            THEN Outcome(table, sequence, Response(500, "OperationalError"), "open")
            ELSE IF rejection # NoResp
            THEN Outcome((table \ matched) \cup written, sequence, rejection, "closed")
            ELSE IF matched = {}
            THEN Outcome(table, sequence, Response(404, NaoEncontrada), "closed")
            ELSE Outcome((table \ matched) \cup written, sequence,
                         Response(200, Atualizada), "closed")

update_movimentacao(table, sequence, movimentacao_id, body, now, fault) ==
    LET rejection == RequestRejection(body) IN
    IF rejection # NoResp THEN Outcome(table, sequence, rejection, "none")
    ELSE
        LET p == BoundParams(body.d)
            matched == {r \in table : r.id = movimentacao_id}
            written == {MakeRow(r.id, p.tipo, p.data, p.produto, p.quantidade,
                                p.destino, Isoformat(now)) : r \in matched}
            rowcount == Cardinality(matched)
            e == ExecuteError(p, fault, written)
        IN  IF e # "" THEN Outcome(table, sequence, Response(500, e), "open")
            ELSE IF fault = "commit"
            THEN Outcome(table, sequence, Response(500, "OperationalError"), "open")
            ELSE IF rowcount = 0
            THEN Outcome(table, sequence, Response(404, NaoEncontrada), "closed")
            ELSE Outcome((table \ matched) \cup written, sequence,
                         Response(200, Atualizada), "closed")

\* delete_movimentacao without the rowcount test: success whatever was deleted.
delete_movimentacao_NoRowcount(table, sequence, movimentacao_id, fault) ==
    LET matched == {r \in table : r.id = movimentacao_id}
    IN  IF fault # "none"
        THEN Outcome(table, sequence, Response(500, "OperationalError"), "open")
        ELSE Outcome(table \ matched, sequence, Response(200, Excluida), "closed")

delete_movimentacao(table, sequence, movimentacao_id, fault) ==
    LET matched == {r \in table : r.id = movimentacao_id}
        rowcount == Cardinality(matched)
    IN  IF fault # "none"
        THEN Outcome(table, sequence, Response(500, "OperationalError"), "open")
        ELSE IF rowcount = 0
        THEN Outcome(table, sequence, Response(404, NaoEncontrada), "closed")
        ELSE Outcome(table \ matched, sequence, Response(200, Excluida), "closed")

\* SelectWhere with "data < ?" for the upper bound: the end date is excluded.
SelectWhere_ExclusiveEnd(table, data_inicio, data_fim) ==
    {r \in table :
        /\ Truthy(data_inicio) => LexLeq(data_inicio.s, r.data.s)
        /\ Truthy(data_fim) => (LexLeq(r.data.s, data_fim.s) /\ r.data.s # data_fim.s)}

\* The WHERE clause get_movimentacoes builds: a bound is added only when the
\* query argument is truthy.
SelectWhere(table, data_inicio, data_fim) ==
    {r \in table :
        /\ Truthy(data_inicio) => LexLeq(data_inicio.s, r.data.s)
        /\ Truthy(data_fim) => LexLeq(r.data.s, data_fim.s)}

\* ORDER BY timestamp DESC: every order of the rows with timestamps not
\* increasing; SQLite leaves the order of equal timestamps open.
OrderByTimestampDesc(rows) ==
    {s \in [1..Cardinality(rows) -> rows] :
        /\ \A i, j \in DOMAIN s : i # j => s[i] # s[j]
        /\ \A i, j \in DOMAIN s : i < j => s[i].timestamp.iso >= s[j].timestamp.iso}

\* A column value as Python reads it back.
FromSql(sv) ==
    CASE sv.t = "null" -> PyNone
      [] sv.t = "text" -> IF "s" \in DOMAIN sv THEN PyStr(sv.s) ELSE sv
      [] sv.t = "integer" -> PyInt(sv.mag, sv.k)
      [] sv.t = "real" -> PyFloat(sv.mag, sv.k)

\* dict(row) of a fetched row.
RowDict(r) ==
    [id |-> PyInt(0, r.id), tipo |-> FromSql(r.tipo), data |-> FromSql(r.data),
     produto |-> FromSql(r.produto), quantidade |-> FromSql(r.quantidade),
     destino |-> FromSql(r.destino), timestamp |-> FromSql(r.timestamp)]

\* The responses get_movimentacoes may return; it has no try/except, so a
\* failing statement leaves through Flask's error handler with the connection open.
get_movimentacoes(table, sequence, data_inicio, data_fim, fault) ==
    IF fault # "none"
    THEN {Outcome(table, sequence, Response(500, "Internal Server Error"), "open")}
    ELSE {Outcome(table, sequence,
                  [status |-> 200, json |-> [i \in DOMAIN rows |-> RowDict(rows[i])]],
                  "closed") :
             rows \in OrderByTimestampDesc(SelectWhere(table, data_inicio, data_fim))}

(***************************************************************************)
(* Requests                                                                *)
(***************************************************************************)
Missing == [t |-> "missing"]
Keys == {"tipo", "data", "produto", "quantidade", "destino"}

\* The JSON object holding the keys of f that are not Missing.
DictOf(f) == PyDict([key \in {x \in Keys : f[x] # Missing} |-> f[key]])

\* Bodies that pass validation or fail only on the quantity, with every stored
\* column varying: two dates, a destination or none, and quantities that are
\* zero, true, small, 2^53 + 1, 2^63 and NaN.
ContentBodies ==
    {DictOf(f) : f \in [tipo : {PyStr(Entrada)},
                        data : {PyStr(d) : d \in Dates},
                        produto : {PyStr(Soja)},
                        quantidade : {PyInt(0, 0), PyBool(TRUE), PyInt(0, 1),
                                      PyInt(53, 1), PyInt(63, 0), PyNaN},
                        destino : {Missing, PyStr(Silo)}]}

\* Bodies for the validation rules: a body that is not JSON, null, a list, and
\* every object in which each required key is absent, empty or filled.
ValidationBodies ==
    {Malformed, PyNone, PyList(1)}
    \cup {DictOf(f) : f \in [tipo : {Missing, PyStr(Empty), PyStr(Entrada)},
                             data : {Missing, PyStr(Empty), PyStr(Date1)},
                             produto : {Missing, PyStr(Empty), PyStr(Soja)},
                             quantidade : {Missing, PyNone, PyStr(Soja), PyBool(TRUE),
                                           PyBool(FALSE), PyInt(0, -5), PyInt(0, 0),
                                           PyInt(0, 1), PyInt(53, 1), PyInt(63, 0),
                                           PyNaN},
                             destino : {Missing, PyStr(Silo)}]}

QueryArgs == {PyNone, PyStr(Empty), PyStr(Date1), PyStr(Date2)}
PathIds == 1..(MaxId + 1)

(***************************************************************************)
(* Actions                                                                 *)
(***************************************************************************)
Init ==
    /\ store = {}
    /\ seq = 0
    /\ assigned = {}
    /\ req = NoReq
    /\ env = NoEnv
    /\ resp = NoResp
    /\ conn = "none"

\* The handler's outcome becomes the state.
Answer(request, environment, out) ==
    /\ req' = request
    /\ env' = environment
    /\ store' = out.store
    /\ seq' = out.seq
    /\ assigned' = assigned \cup Ids(out.store)
    /\ resp' = out.resp
    /\ conn' = out.conn

\* The environment a handler reads: nothing when it answers before the store.
Environments(reachesStore, faults) ==
    IF reachesStore THEN [now : Times, fault : faults] ELSE {NoEnv}

Post(bodies) ==
    /\ req = NoReq
    /\ \E body \in bodies :
        \E e \in Environments(RequestRejection(body) = NoResp, Faults) :
            /\ RequestRejection(body) = NoResp => seq < MaxId
            /\ Answer([op |-> "POST", body |-> body], e,
                      add_movimentacao(store, seq, body, e.now, e.fault))

Put(bodies) ==
    /\ req = NoReq
    /\ \E id \in PathIds, body \in bodies :
        \E e \in Environments(RequestRejection(body) = NoResp, Faults) :
            Answer([op |-> "PUT", id |-> id, body |-> body], e,
                   update_movimentacao(store, seq, id, body, e.now, e.fault))

Delete ==
    /\ req = NoReq
    /\ \E id \in PathIds, fault \in Faults :
        Answer([op |-> "DELETE", id |-> id], [now |-> 0, fault |-> fault],
               delete_movimentacao(store, seq, id, fault))

Get_ ==
    /\ req = NoReq
    /\ \E data_inicio \in QueryArgs, data_fim \in QueryArgs,
          fault \in {"none", "execute"} :
        \E out \in get_movimentacoes(store, seq, data_inicio, data_fim, fault) :
            Answer([op |-> "GET", dataInicio |-> data_inicio, dataFim |-> data_fim],
                   [now |-> 0, fault |-> fault], out)

\* The response has left; the server waits for the next request.
Return ==
    /\ req # NoReq
    /\ req' = NoReq
    /\ env' = NoEnv
    /\ resp' = NoResp
    /\ conn' = "none"
    /\ UNCHANGED <<store, seq, assigned>>

Next == Post(ContentBodies) \/ Put(ContentBodies) \/ Delete \/ Get_ \/ Return

Spec == Init /\ [][Next]_vars

\* The same server, asked with the bodies that exercise the validation rules.
NextValidation ==
    Post(ValidationBodies) \/ Put(ValidationBodies) \/ Delete \/ Get_ \/ Return

SpecValidation == Init /\ [][NextValidation]_vars

(***************************************************************************)
(* Properties                                                              *)
(***************************************************************************)
IsWrite(request) == request.op \in {"POST", "PUT"}

NonEmptyText(sv) == sv.t = "text" /\ sv.s # Empty

PositiveReal(sv) == sv.t = "real" /\ (sv.mag > 0 \/ sv.k > 0)

\* C1: in every reachable state every stored movement has a quantity strictly
\* greater than zero and a non-empty kind, date and product.
C1_StoredRowsValid ==
    \A r \in store :
        /\ PositiveReal(r.quantidade)
        /\ NonEmptyText(r.tipo)
        /\ NonEmptyText(r.data)
        /\ NonEmptyText(r.produto)

\* C1 witness: two movements are stored and an update of one of them has just
\* been rejected for its quantity.
C1_Witness ==
    /\ Cardinality(store) = 2
    /\ req.op = "PUT"
    /\ req.id \in Ids(store)
    /\ resp = Response(400, QuantidadeInvalida)

\* A JSON object lacks a required field: tipo, data or produto is absent or
\* the empty string, or quantidade is absent.
RequiredMissing(d) ==
    \/ \E key \in {"tipo", "data", "produto"} :
          key \notin DOMAIN d \/ d[key] = PyStr(Empty)
    \/ "quantidade" \notin DOMAIN d

\* C2: every create or update whose JSON object lacks a required field, the
\* object with no field at all included, is answered 400 "missing required
\* fields" and writes nothing.
C2_MissingFieldAlways ==
    [][(IsWrite(req') /\ req'.body.t = "dict" /\ RequiredMissing(req'.body.d))
        => (resp' = Response(400, CamposFaltando) /\ store' = store)]_vars

\* A JSON number, as opposed to true, false, a string or null.
JsonNumber(v) == v.t \in {"int", "float"}

NonPositive(v) == JsonNumber(v) /\ (v.t = "float" => ~v.nan) /\ v.mag = 0 /\ v.k <= 0

\* The stored REAL is the number v.
SameNumber(sv, v) ==
    /\ JsonNumber(v)
    /\ (v.t = "float" => ~v.nan)
    /\ sv.t = "real"
    /\ sv.mag = v.mag
    /\ sv.k = v.k

\* The required fields of a JSON object are all there and quantidade is not null.
RequiredPresent(d) == ~RequiredMissing(d) /\ d["quantidade"] # PyNone

\* C3: every create that passes the required-field check with a quantity that
\* is not a number or is <= 0 is answered 400 "quantity must be a positive
\* number" and stores nothing, and every accepted create stores a record whose
\* quantity equals the submitted quantity and is > 0.
C3_QuantityChecked ==
    [][/\ (/\ req'.op = "POST"
           /\ req'.body.t = "dict"
           /\ RequiredPresent(req'.body.d)
           /\ (~JsonNumber(req'.body.d["quantidade"])
               \/ NonPositive(req'.body.d["quantidade"])))
          => (resp' = Response(400, QuantidadeInvalida) /\ store' = store)
       /\ (req'.op = "POST" /\ resp'.status = 201)
          => \E r \in store' \ store :
                /\ store' = store \cup {r}
                /\ SameNumber(r.quantidade, req'.body.d["quantidade"])
                /\ PositiveReal(r.quantidade)]_vars

\* C9: a create or update answered with a 400 never reaches the store: the
\* rows, the row counter and the connection are as before the request.
C9_RejectionWritesNothing ==
    [][(IsWrite(req') /\ resp'.status = 400)
        => (store' = store /\ seq' = seq /\ conn' = "none")]_vars

\* C9 witness: an update aimed at a stored row was answered 400.
C9_Witness ==
    /\ req.op = "PUT"
    /\ req.id \in Ids(store)
    /\ resp.status = 400

\* A body the data model calls valid: non-empty strings for tipo, data and
\* produto, a number above zero for quantidade, a string or nothing for destino.
PositiveNumber(v) ==
    JsonNumber(v) /\ (v.t = "float" => ~v.nan) /\ (v.mag > 0 \/ v.k > 0)

ValidBody(body) ==
    /\ body.t = "dict"
    /\ \A key \in {"tipo", "data", "produto"} :
          key \in DOMAIN body.d /\ body.d[key].t = "str" /\ body.d[key].s # Empty
    /\ "quantidade" \in DOMAIN body.d
    /\ PositiveNumber(body.d["quantidade"])
    /\ "destino" \in DOMAIN body.d => body.d["destino"].t = "str"

\* C4: while the store raises no fault, an update with a valid body on an id
\* that is not stored returns 404 and changes no row, and an accepted update of
\* a stored id replaces that row's tipo, data, produto, quantidade, destino and
\* timestamp, keeps its id and changes no other row.
C4_UpdateFrame ==
    [][(req'.op = "PUT" /\ ValidBody(req'.body) /\ env'.fault = "none")
        => IF req'.id \notin Ids(store)
           THEN resp' = Response(404, NaoEncontrada) /\ store' = store
           ELSE resp'.status = 200
                => \E old \in store, new \in store' :
                      /\ old.id = req'.id
                      /\ new.id = old.id
                      /\ store' = (store \ {old}) \cup {new}
                      /\ new.tipo = SqlText(req'.body.d["tipo"].s)
                      /\ new.data = SqlText(req'.body.d["data"].s)
                      /\ new.produto = SqlText(req'.body.d["produto"].s)
                      /\ new.quantidade.t = "real"
                      /\ new.destino = Bind(Get(req'.body.d, "destino"))
                      /\ new.timestamp = Isoformat(env'.now)]_vars

\* C5: while the store raises no fault, deleting a stored id removes exactly
\* that record and returns success, the same delete repeated at once returns
\* 404 and leaves the store as the first delete left it, and deleting an id
\* that is not stored returns 404 and changes nothing.
C5_DeleteTwice ==
    [][(req'.op = "DELETE" /\ env'.fault = "none")
        => IF req'.id \in Ids(store)
           THEN /\ resp' = Response(200, Excluida)
                /\ store' = {r \in store : r.id # req'.id}
                /\ LET again == delete_movimentacao(store', seq', req'.id, "none")
                   IN  /\ again.resp = Response(404, NaoEncontrada)
                       /\ again.store = store'
           ELSE resp' = Response(404, NaoEncontrada) /\ store' = store]_vars

\* C5 witness: a delete of an id that was created and deleted before is
\* answered 404 while another record is stored.
C5_Witness ==
    /\ req.op = "DELETE"
    /\ req.id \in assigned
    /\ req.id \notin Ids(store)
    /\ store # {}
    /\ resp = Response(404, NaoEncontrada)

\* C7: the id of every created record is new among all ids ever assigned and
\* greater than each of them, also after the record with the highest id was
\* deleted, and no two stored records share an id.
C7_IdsNeverReused ==
    /\ [](\A r1, r2 \in store : r1.id = r2.id => r1 = r2)
    /\ [][(req'.op = "POST" /\ resp'.status = 201)
           => \E r \in store' :
                 /\ r \notin store
                 /\ store' = store \cup {r}
                 /\ r.id \notin assigned
                 /\ \A a \in assigned : r.id > a]_vars

\* C7 witness: a create is accepted after the record with the highest id was
\* deleted.
C7_Witness ==
    /\ req.op = "POST"
    /\ resp.status = 201
    /\ (seq - 1) \in assigned
    /\ (seq - 1) \notin Ids(store)

\* C8: when a handler has returned, the connection it acquired is not open.
C8_ConnectionReleased == req # NoReq => conn # "open"

\* A query argument was given: the request carries it.
GivenArg(arg) == arg # PyNone

\* A query argument was given and is not the empty string.
GivenNonEmpty(arg) == arg # PyNone /\ arg # PyStr(Empty)

\* Row r lies in the date range, a bound counting only where Given holds of it.
InRange(r, d1, d2, Given(_)) ==
    /\ Given(d1) => LexLeq(d1.s, r.data.s)
    /\ Given(d2) => LexLeq(r.data.s, d2.s)

\* The JSON array lists exactly the given rows, once each, newest timestamp first.
ListsExactly(json, rows) ==
    /\ Len(json) = Cardinality(rows)
    /\ {json[i] : i \in DOMAIN json} = {RowDict(r) : r \in rows}
    /\ \A i, j \in DOMAIN json :
          i < j => json[i].timestamp.iso >= json[j].timestamp.iso

\* C6 as claimed: while the store raises no fault, a list returns exactly the
\* stored records with d1 <= date <= d2, a bound restricting whenever the
\* request gives it, ordered by timestamp descending, and changes no row.
C6_ListGivenRange ==
    [][(req'.op = "GET" /\ env'.fault = "none")
        => /\ resp'.status = 200
           /\ ListsExactly(resp'.json,
                           {r \in store :
                               InRange(r, req'.dataInicio, req'.dataFim, GivenArg)})
           /\ store' = store]_vars

\* C6 amended: while the store raises no fault, a list returns exactly the
\* stored records with d1 <= date <= d2, a bound that is absent or the empty
\* string not restricting, ordered by timestamp descending, and changes no row.
C6_ListNonEmptyRange ==
    [][(req'.op = "GET" /\ env'.fault = "none")
        => /\ resp'.status = 200
           /\ ListsExactly(resp'.json,
                           {r \in store :
                               InRange(r, req'.dataInicio, req'.dataFim, GivenNonEmpty)})
           /\ store' = store]_vars

\* C6 witness: of two stored records a list with both bounds set returned one.
C6_Witness ==
    /\ req.op = "GET"
    /\ GivenNonEmpty(req.dataInicio)
    /\ GivenNonEmpty(req.dataFim)
    /\ Cardinality(store) = 2
    /\ resp.status = 200
    /\ Len(resp.json) = 1

\* Python's == between a listed quantity and the submitted one: True counts as 1
\* and NaN equals nothing.
NumberOf(v) ==
    IF v.t = "bool" THEN [mag |-> 0, k |-> IF v.b THEN 1 ELSE 0]
    ELSE [mag |-> v.mag, k |-> v.k]

NumEq(a, b) ==
    /\ IsIntOrFloat(a) /\ IsIntOrFloat(b)
    /\ (a.t = "float" => ~a.nan) /\ (b.t = "float" => ~b.nan)
    /\ NumberOf(a) = NumberOf(b)

\* C10: after an accepted create, a list with no date filter issued at once
\* includes a record with the submitted tipo, data, produto, destino (null when
\* not submitted) and quantidade, a new id and a timestamp.
C10_RoundTrip ==
    [][(req'.op = "POST" /\ resp'.status = 201)
        => \A out \in get_movimentacoes(store', seq', PyNone, PyNone, "none") :
              \E i \in DOMAIN out.resp.json :
                 LET m == out.resp.json[i]
                     d == req'.body.d
                 IN  /\ m.tipo = d["tipo"]
                     /\ m.data = d["data"]
                     /\ m.produto = d["produto"]
                     /\ m.destino = Get(d, "destino")
                     /\ NumEq(m.quantidade, d["quantidade"])
                     /\ m.id.k \notin assigned
                     /\ m.timestamp.t = "text"]_vars

====
